---- MODULE Spec2Model ----
(***************************************************************************)
(* Model of the borrow-interval pipeline of ima-lab-analysis:              *)
(*   - RealtimeDataLoader (data/loaders/realtime_loader.py): validation,   *)
(*     category mapping, grouping and check-out/check-in matching;         *)
(*   - init_database (init_data.py): historical/realtime deduplication     *)
(*     and the writes to the unified_records table (data/database.py).     *)
(*                                                                         *)
(* Timestamps are counted from midnight; pd.NaT is the sentinel NaT.        *)
(* DataFrames are sequences of records, one record per row.                *)
(***************************************************************************)
EXTENDS Integers, Sequences, FiniteSets, TLC

VARIABLES
    pc,             \* position of the modelled call: which call ran last
    group,          \* _process_borrow_records: the group handed in by groupby
    valid_actions,  \* _process_borrow_records: the filtered, time-sorted rows
    records,        \* _process_borrow_records: the rows it returns
    group2,         \* the same rows in another order, for a second call
    records2,       \* rows returned by the second call
    raw,            \* load: df_raw as fetched from the sheets
    unified,        \* load: df_unified as returned
    hist_outcome,   \* init_database: how load_historical_data() ended
    hist_in,        \* init_database: rows load_historical_data() returned
    rt_outcome,     \* init_database: how load_realtime_data() ended
    rt_in,          \* init_database: rows load_realtime_data() returned
    df_historical,  \* init_database: local df_historical when it returns
    df_realtime,    \* init_database: local df_realtime when it returns
    db_fail,        \* init_database: the insert whose to_sql raises, if any
    store,          \* rows of the unified_records table
    ret,            \* init_database: returned value
    request,        \* analyze: the arguments of the call
    now,            \* analyze: the instant pd.Timestamp.now() returns
    result          \* analyze: the returned dict

vars == <<pc, group, valid_actions, records, group2, records2, raw,
          unified, hist_outcome, hist_in, rt_outcome, rt_in, df_historical,
          df_realtime, db_fail, store, ret, request, now, result>>

analysisVars == <<request, now, result>>

reconVars == <<group, valid_actions, records, group2, records2>>
loadVars  == <<raw, unified>>
initVars  == <<hist_outcome, hist_in, rt_outcome, rt_in, df_historical,
               df_realtime, db_fail, store, ret>>

-----------------------------------------------------------------------------
(* Bounds of the model *)

MaxEvents == 4

MaxRaw == 3

MaxHist == 2

MaxRealtime == 2

-----------------------------------------------------------------------------
(* Values *)

NaT == -1

NA == -2

\* A datetime64 value is finer than a second (pd.Timestamp.now() is read to
\* the microsecond): instants and durations are counted in half seconds.
Second(s) == s * 2

Minute(m) == Second(m * 60)

Hour(h) == Second(h * 3600)

TARGET_SHEETS == <<"Fall 2025", "Spring 2026">>

CheckOut == "Check Out"

CheckIn == "Check In"

\* Equipment names are token sequences: the words of the name, the last one
\* possibly a unit number.
DigitTokens == {"1", "2"}

Camera1 == <<"Camera", "1">>

Mic1 == <<"Mic", "1">>

\* Codes are character sequences.
CodeCAM1 == <<"C", "A", "M", "1">>

CodeXY == <<"X", "Y">>

\* A missing cell (NaN / None) of a text column.
NaN == "NaN"

-----------------------------------------------------------------------------
(* Generic sequence helpers *)

Range(s) == {s[i] : i \in DOMAIN s}

RemoveAt(s, i) == SubSeq(s, 1, i - 1) \o SubSeq(s, i + 1, Len(s))

SeqsUpTo(S, n) == UNION {[1..k -> S] : k \in 0..n}

BagOfSeq(s) == [x \in Range(s) |-> Cardinality({i \in DOMAIN s : s[i] = x})]

-----------------------------------------------------------------------------
(* pandas comparisons on datetime values: every comparison with NaT is     *)
(* False, except != which is True.                                         *)

TimeGT(a, b) == a # NaT /\ b # NaT /\ a > b

TimeNE(a, b) == a = NaT \/ b = NaT \/ a # b

RoundDown(n, d) == n \div d

\* Python round(x, 0) on the float n/d: round half to even.
RoundHalfEven(n, d) ==
    LET q == n \div d
        r == n % d
    IN  IF 2 * r < d THEN q
        ELSE IF 2 * r > d THEN q + 1
        ELSE IF q % 2 = 0 THEN q ELSE q + 1

-----------------------------------------------------------------------------
(* RealtimeDataLoader._process_borrow_records *)

\* group[group['Action'].isin(['Check Out', 'Check In'])]
FilterValidActions(g) ==
    SelectSeq(g, LAMBDA row : row.Action \in {CheckOut, CheckIn})

\* Positions of df that sort_values('Time') may put first: a row of least
\* Time, NaT rows after all others.
FirstPositions(df) ==
    LET timed == {i \in DOMAIN df : df[i].Time # NaT}
    IN  IF timed = {} THEN DOMAIN df
        ELSE {i \in timed : \A j \in timed : df[i].Time <= df[j].Time}

\* .sort_values('Time').reset_index(drop=True): the default sort kind is not
\* stable, so rows of equal Time come out in any order.
RECURSIVE SortValues(_)
SortValues(df) ==
    IF df = <<>> THEN {<<>>}
    ELSE UNION {{<<df[i]>> \o rest : rest \in SortValues(RemoveAt(df, i))} :
                i \in FirstPositions(df)}

AllCheckIns(check_ins, co_row) == check_ins

\* check_ins[check_ins['Time'] > co_row['Time']]
PotentialCheckIns(check_ins, co_row) ==
    SelectSeq(check_ins, LAMBDA ci : TimeGT(ci.Time, co_row.Time))

PickLastCheckIn(potential_ci) == potential_ci[Len(potential_ci)]

\* potential_ci.iloc[0]
PickCheckIn(potential_ci) == potential_ci[1]

KeepMatched(check_ins, ci_row) == check_ins

\* check_ins[check_ins['Time'] != ci_row['Time']]
RemoveMatched(check_ins, ci_row) ==
    SelectSeq(check_ins, LAMBDA ci : TimeNE(ci.Time, ci_row.Time))

ClosedRecord(co_row, ci_row) ==
    [Start |-> co_row.Time,
     finished |-> ci_row.Time,
     duration_hours |-> RoundHalfEven(ci_row.Time - co_row.Time, Hour(1)),
     item_name_with_num |-> co_row.EquipmentName,
     Category |-> co_row.Category,
     source |-> "realtime",
     sheet_source |-> co_row.sheet_source]

OpenRecord(co_row) ==
    [Start |-> co_row.Time,
     finished |-> NaT,
     duration_hours |-> NA,
     item_name_with_num |-> co_row.EquipmentName,
     Category |-> co_row.Category,
     source |-> "realtime",
     sheet_source |-> co_row.sheet_source]

\* for _, co_row in check_outs.iterrows(): ...
RECURSIVE MatchLoop(_, _, _)
MatchLoop(check_outs, check_ins, recs) ==
    IF check_outs = <<>> THEN recs
    ELSE LET co_row == Head(check_outs)
             potential_ci == PotentialCheckIns(check_ins, co_row)
         IN  IF potential_ci # <<>>
             THEN LET ci_row == PickCheckIn(potential_ci)
                  IN  MatchLoop(Tail(check_outs),
                                RemoveMatched(check_ins, ci_row),
                                Append(recs, ClosedRecord(co_row, ci_row)))
             ELSE MatchLoop(Tail(check_outs), check_ins,
                            Append(recs, OpenRecord(co_row)))

\* The body of _process_borrow_records after the sort.
MatchRecords(valid) ==
    MatchLoop(SelectSeq(valid, LAMBDA row : row.Action = CheckOut),
              SelectSeq(valid, LAMBDA row : row.Action = CheckIn),
              <<>>)

UnsortedValidActions(g) == {FilterValidActions(g)}

\* valid_actions as _process_borrow_records may compute it from a group.
SortedValidActions(g) == SortValues(FilterValidActions(g))

-----------------------------------------------------------------------------
(* Inputs of the reconstruction specification: one group of groupby, that  *)
(* is rows of one NetID and one Equipment Name, timestamps already parsed. *)

ReconTimes == {Hour(9), Hour(10), Hour(11), Hour(12)}

Event(action, time, sheet) ==
    [Time |-> time, NetID |-> "n1", EquipmentName |-> Camera1,
     Code |-> CodeCAM1, Action |-> action, sheet_source |-> sheet,
     Category |-> "Cameras"]

\* Rows of a single sheet.
PlainEvents ==
    {Event(a, t, TARGET_SHEETS[1]) : a \in {CheckOut, CheckIn}, t \in ReconTimes}

\* Rows of both sheets, on the first two hours.
TaggedEvents ==
    {Event(a, t, TARGET_SHEETS[s]) :
        a \in {CheckOut, CheckIn}, t \in {Hour(9), Hour(10)}, s \in {1, 2}}

\* Another input order of the same rows: first and last row exchanged, or
\* all rows reversed.
Reorderings(df) ==
    {[i \in DOMAIN df |-> df[Len(df) + 1 - i]],
     [i \in DOMAIN df |->
        IF i = 1 THEN df[Len(df)] ELSE IF i = Len(df) THEN df[1] ELSE df[i]]}

\* Rows at instants that are not whole hours apart: 30 minutes, 40
\* minutes, 1 h 10, 1 h 20, 2 h and 2 h 30.
UnevenTimes ==
    {Hour(9), Hour(9) + Minute(30), Hour(10) + Minute(10),
     Hour(11) + Minute(30)}

UnevenEvents ==
    {Event(a, t, TARGET_SHEETS[1]) :
        a \in {CheckOut, CheckIn}, t \in UnevenTimes}

ReconGroups ==
    SeqsUpTo(PlainEvents, MaxEvents) \cup SeqsUpTo(TaggedEvents, MaxEvents - 1)
        \cup SeqsUpTo(UnevenEvents, MaxEvents - 1)

-----------------------------------------------------------------------------
(* Specification of _process_borrow_records on one group *)

InitIdleLoad == raw = <<>> /\ unified = <<>>

InitIdleAnalysis == request = <<>> /\ now = 0 /\ result = <<>>

InitIdleInit ==
    /\ hist_outcome = "ok" /\ hist_in = <<>>
    /\ rt_outcome = "ok" /\ rt_in = <<>>
    /\ df_historical = <<>> /\ df_realtime = <<>>
    /\ db_fail = "none"
    /\ store = <<>> /\ ret = "none"

InitIdleRecon ==
    /\ group = <<>> /\ valid_actions = <<>> /\ records = <<>>
    /\ group2 = <<>> /\ records2 = <<>>

InitRecon ==
    /\ pc = "group"
    /\ group \in ReconGroups
    /\ valid_actions = <<>> /\ records = <<>>
    /\ group2 = <<>> /\ records2 = <<>>
    /\ InitIdleLoad
    /\ InitIdleInit
    /\ InitIdleAnalysis

\* One call of _process_borrow_records(group).
ProcessBorrowRecords ==
    /\ pc = "group"
    /\ \E valid \in SortedValidActions(group) :
          /\ valid_actions' = valid
          /\ records' = MatchRecords(valid)
    /\ pc' = "done"
    /\ UNCHANGED <<group, group2, records2>>
    /\ UNCHANGED <<loadVars, initVars, analysisVars>>

\* A second call, on the same rows handed in in another order.
ProcessReordered ==
    /\ pc = "done"
    /\ \E g2 \in Reorderings(group) :
          \E valid \in SortedValidActions(g2) :
             /\ group2' = g2
             /\ records2' = MatchRecords(valid)
    /\ pc' = "again"
    /\ UNCHANGED <<group, valid_actions, records>>
    /\ UNCHANGED <<loadVars, initVars, analysisVars>>

NextRecon == ProcessBorrowRecords \/ ProcessReordered

SpecRecon == InitRecon /\ [][NextRecon]_vars

-----------------------------------------------------------------------------
(* The documented pairing policy: strict FIFO over the rows sorted by time *)
(* with input order as tie-break.  Intervals are <<start, end>> pairs.     *)

RECURSIVE StableSortByTime(_)
StableSortByTime(df) ==
    IF df = <<>> THEN <<>>
    ELSE LET first == CHOOSE i \in FirstPositions(df) :
                          \A j \in FirstPositions(df) : i <= j
         IN  <<df[first]>> \o StableSortByTime(RemoveAt(df, first))

RECURSIVE FifoLoop(_, _, _)
FifoLoop(events, open, out) ==
    IF events = <<>>
    THEN out \o [i \in 1..Len(open) |-> <<open[i].Time, NaT>>]
    ELSE LET e == Head(events)
         IN  IF e.Action = CheckOut
             THEN FifoLoop(Tail(events), Append(open, e), out)
             ELSE IF open # <<>>
                  THEN FifoLoop(Tail(events), Tail(open),
                                Append(out, <<Head(open).Time, e.Time>>))
                  ELSE FifoLoop(Tail(events), open, out)

FifoIntervals(g) == FifoLoop(StableSortByTime(FilterValidActions(g)), <<>>, <<>>)

\* Number of check-outs open in the FIFO queue after the rows of `events`.
RECURSIVE FifoOpenAfter(_, _)
FifoOpenAfter(events, open) ==
    IF events = <<>> THEN open
    ELSE IF Head(events).Action = CheckOut
         THEN FifoOpenAfter(Tail(events), open + 1)
         ELSE FifoOpenAfter(Tail(events), IF open > 0 THEN open - 1 ELSE 0)

\* Row i of the sorted rows is a check-in that finds the FIFO queue empty.
IsOrphan(sorted, i) ==
    /\ sorted[i].Action = CheckIn
    /\ FifoOpenAfter(SubSeq(sorted, 1, i - 1), 0) = 0

Spans(recs) == [i \in DOMAIN recs |-> <<recs[i].Start, recs[i].finished>>]

Timings(recs) ==
    [i \in DOMAIN recs |->
        <<recs[i].Start, recs[i].finished, recs[i].duration_hours>>]

IsClosed(r) == r.finished # NaT

CountOf(s, Test(_)) == Cardinality({i \in DOMAIN s : Test(s[i])})

IsCheckOut(row) == row.Action = CheckOut

IsOpenSpan(span) == span[2] = NaT

IsOpenRecord(r) == r.finished = NaT

-----------------------------------------------------------------------------
(* Claims on _process_borrow_records *)

\* C1: the intervals returned for a group are exactly those of strict FIFO
\* pairing over the rows sorted by time with input order as tie-break, also
\* when rows share a timestamp.
C1_FifoPairing ==
    pc # "group" => BagOfSeq(Spans(records)) = BagOfSeq(FifoIntervals(group))

\* C2: the closed intervals are at most as many as the check-outs, and the
\* open intervals are as many as the check-outs FIFO pairing leaves unmatched.
C2_IntervalCounts ==
    pc # "group" =>
        /\ CountOf(records, IsClosed) <= CountOf(group, IsCheckOut)
        /\ CountOf(records, IsOpenRecord)
              = CountOf(FifoIntervals(group), IsOpenSpan)

\* Check-outs of the group that share a timestamp carry the same category
\* and the same sheet.
TiedCheckOutsAgree(g) ==
    \A i, j \in DOMAIN g :
        (g[i].Action = CheckOut /\ g[j].Action = CheckOut
            /\ g[i].Time = g[j].Time)
        => (g[i].Category = g[j].Category
            /\ g[i].sheet_source = g[j].sheet_source)

\* C3 as stated: every reordering of the rows of a group yields the same set
\* of intervals, category and sheet included.
C3_OrderIndependent ==
    pc = "again" => Range(records2) = Range(records)

\* C3 as amended: every reordering yields the same multiset of (start, end,
\* duration); the full intervals are the same when check-outs sharing a
\* timestamp carry the same category and sheet.
C3_OrderIndependentTimings ==
    pc = "again" =>
        /\ BagOfSeq(Timings(records2)) = BagOfSeq(Timings(records))
        /\ TiedCheckOutsAgree(group)
              => BagOfSeq(records2) = BagOfSeq(records)

\* C3 witness: a second call on the rows in another order, on a group with
\* two check-outs at one timestamp and a closed interval.
C3_Witness ==
    /\ pc = "again"
    /\ group2 # group
    /\ TiedCheckOutsAgree(group)
    /\ \E i, j \in DOMAIN group :
          i < j /\ IsCheckOut(group[i]) /\ IsCheckOut(group[j])
               /\ group[i].Time = group[j].Time
    /\ \E i \in DOMAIN records : IsClosed(records[i])

\* The rows alternate Check Out, Check In, ... in non-decreasing time order,
\* every check-out followed by its check-in.
StrictAlternation(g) ==
    /\ Len(g) > 0 /\ Len(g) % 2 = 0
    /\ \A i \in DOMAIN g :
          g[i].Action = (IF i % 2 = 1 THEN CheckOut ELSE CheckIn)
    /\ \A i \in 1..(Len(g) - 1) : g[i].Time <= g[i + 1].Time

\* C4: a log of N check-out/check-in pairs in strict alternation yields N
\* closed intervals, the i-th from the i-th check-out to the i-th check-in,
\* its duration the difference of the two in hours.
C4_AlternationRoundTrip ==
    (pc # "group" /\ StrictAlternation(group)) =>
        /\ Len(records) = Len(group) \div 2
        /\ \A i \in DOMAIN records :
              /\ records[i].Start = group[2 * i - 1].Time
              /\ records[i].finished = group[2 * i].Time
              /\ records[i].duration_hours * Hour(1)
                    = group[2 * i].Time - group[2 * i - 1].Time

ExampleC5 ==
    <<Event(CheckOut, Hour(9), TARGET_SHEETS[1]),
      Event(CheckOut, Hour(10), TARGET_SHEETS[1]),
      Event(CheckIn, Hour(11), TARGET_SHEETS[1]),
      Event(CheckIn, Hour(12), TARGET_SHEETS[1])>>

\* C5: intervals come out in check-out order and, of two closed intervals,
\* the one of the earlier check-out does not end later than the other; the
\* log [CO 09:00, CO 10:00, CI 11:00, CI 12:00] gives 09:00-11:00 and
\* 10:00-12:00.
C5_CheckOutOrderPreserved ==
    pc # "group" =>
        /\ \A i, j \in DOMAIN records :
              i < j =>
                 /\ records[i].Start <= records[j].Start
                 /\ (IsClosed(records[i]) /\ IsClosed(records[j]))
                       => records[i].finished <= records[j].finished
        /\ group = ExampleC5 =>
              Spans(records) = << <<Hour(9), Hour(11)>>, <<Hour(10), Hour(12)>> >>

\* C5 witness: the example log has been processed into two closed intervals.
C5_Witness ==
    /\ pc = "done"
    /\ group = ExampleC5
    /\ Len(records) = 2
    /\ \A i \in DOMAIN records : IsClosed(records[i])

\* C6: a check-in that finds no check-out open emits no interval, and the
\* intervals are those obtained with that check-in absent from the input.
C6_OrphanIgnored ==
    pc # "group" =>
        LET sorted == StableSortByTime(FilterValidActions(group))
        IN  \A i \in DOMAIN sorted :
               IsOrphan(sorted, i) =>
                  \E valid \in SortValues(RemoveAt(sorted, i)) :
                     BagOfSeq(MatchRecords(valid)) = BagOfSeq(records)

-----------------------------------------------------------------------------
(* RealtimeDataLoader.load and the steps it calls.  A raw row carries the  *)
(* Time cell as written in the sheet: the format it is written in and the  *)
(* instant it denotes; fmt = NaN is a missing cell.                        *)

RealtimeFormat == "%m/%d/%Y %H:%M:%S"

IsoFormat == "%Y-%m-%d %H:%M:%S"

\* pd.to_datetime(cell, format='%m/%d/%Y %H:%M:%S', errors='coerce')
ToDatetime(cell) == IF cell.fmt = RealtimeFormat THEN cell.secs ELSE NaT

\* df.dropna(subset=required_cols)
DropNa(df) ==
    SelectSeq(df, LAMBDA row :
        /\ row.Time.fmt # NaN
        /\ row.NetID # NaN
        /\ row.EquipmentName # <<>>
        /\ row.Code # <<>>
        /\ row.Action # NaN)

ParseTimes(df) == [i \in DOMAIN df |-> [df[i] EXCEPT !.Time = ToDatetime(@)]]

\* _validate_data: drop rows with a missing required cell, then parse Time.
ValidateData(df) == ParseTimes(DropNa(df))

\* re.sub(r'\s+\d+$', '', name): drops a trailing unit number.
StripNumber(name) ==
    IF Len(name) > 1 /\ name[Len(name)] \in DigitTokens
    THEN SubSeq(name, 1, Len(name) - 1)
    ELSE name

\* str.lower() on the words of a name.
LowerToken(tok) ==
    CASE tok = "Camera" -> "camera"
      [] tok = "Mic" -> "mic"
      [] OTHER -> tok

Lower(name) == [i \in DOMAIN name |-> LowerToken(name[i])]

\* CategoryMapper._code_map and _name_map as loaded from the mapping file.
code_map == (<<"C", "A", "M">> :> "Cameras")

name_map == (<<"mic">> :> "Microphones")

\* CategoryMapper.get_category_by_code
get_category_by_code(code) ==
    LET hits == {n \in 3..4 : n <= Len(code)
                               /\ SubSeq(code, 1, n) \in DOMAIN code_map}
    IN  IF hits # {}
        THEN code_map[SubSeq(code, 1, CHOOSE n \in hits : \A m \in hits : m <= n)]
        ELSE IF code \in DOMAIN code_map THEN code_map[code]
        ELSE "Unknown"

\* CategoryMapper.get_category: the code first, the name as fallback.
get_category(code, name) ==
    IF code # <<>> /\ get_category_by_code(code) # "Unknown"
    THEN get_category_by_code(code)
    ELSE IF name # <<>> /\ Lower(name) \in DOMAIN name_map
         THEN name_map[Lower(name)]
         ELSE "Unknown"

\* df_raw['Category'] = df_raw.apply(self._map_category, axis=1)
MapCategories(df) ==
    [i \in DOMAIN df |->
        df[i] @@ [Category |-> get_category(df[i].Code,
                                            StripNumber(df[i].EquipmentName))]]

\* Sort order of the text values of the model.
NetIDOrder == <<"n1", "n2">>

NameOrder == <<Camera1, Mic1>>

\* The group keys of groupby(['NetID', 'Equipment Name']), sorted.
GroupKeys ==
    [k \in 1..(Len(NetIDOrder) * Len(NameOrder)) |->
        <<NetIDOrder[((k - 1) \div Len(NameOrder)) + 1],
          NameOrder[((k - 1) % Len(NameOrder)) + 1]>>]

\* Whether a row belongs to the group of a key.
IsInGroup(row, key) == row.NetID = key[1] /\ row.EquipmentName = key[2]

GroupRows(df, key) == SelectSeq(df, LAMBDA row : IsInGroup(row, key))

\* The frames _process_borrow_records may return for one group.
ProcessBorrowRecordsOutcomes(g) ==
    {MatchRecords(valid) : valid \in SortedValidActions(g)}

\* groupby(...).apply(self._process_borrow_records).reset_index(drop=True):
\* the frames of the groups, concatenated in key order.
RECURSIVE GroupApply(_, _)
GroupApply(df, keys) ==
    IF keys = <<>> THEN {<<>>}
    ELSE {first \o rest :
            first \in ProcessBorrowRecordsOutcomes(GroupRows(df, Head(keys))),
            rest \in GroupApply(df, Tail(keys))}

\* The columns load adds after the grouping: 'item name', and the duration
\* rounded and cast to Int64.
Finalize(df) ==
    [i \in DOMAIN df |->
        [df[i] EXCEPT !.duration_hours =
                         IF @ = NA THEN NA ELSE RoundHalfEven(@, 1)]
        @@ [item_name |-> StripNumber(df[i].item_name_with_num)]]

\* The frames load may return for the fetched rows.
LoadOutcomes(df_raw) ==
    {Finalize(u) : u \in GroupApply(MapCategories(ValidateData(df_raw)), GroupKeys)}

-----------------------------------------------------------------------------
(* Inputs of the load specification *)

LoadTimes == {Hour(9), Hour(10)}

Cell(fmt, secs) == [fmt |-> fmt, secs |-> secs]

CodeOf(name) == IF name = Camera1 THEN CodeCAM1 ELSE CodeXY

RawRow(netid, name, action, cell) ==
    [Time |-> cell, NetID |-> netid, EquipmentName |-> name,
     Code |-> CodeOf(name), Action |-> action,
     sheet_source |-> TARGET_SHEETS[1]]

RawRows ==
    {RawRow(n, Camera1, a, Cell(RealtimeFormat, t)) :
        n \in {"n1", "n2"}, a \in {CheckOut, CheckIn}, t \in LoadTimes}
    \cup {RawRow("n1", Mic1, a, Cell(RealtimeFormat, t)) :
        a \in {CheckOut, CheckIn}, t \in LoadTimes}
    \cup {RawRow("n1", Camera1, a, Cell(IsoFormat, Hour(9))) :
        a \in {CheckOut, CheckIn}}
    \cup {RawRow("n1", Camera1, CheckOut, Cell(NaN, 0)),
          RawRow("n1", Camera1, "Renew", Cell(RealtimeFormat, Hour(9)))}

-----------------------------------------------------------------------------
(* Specification of load on one fetched batch *)

InitLoad ==
    /\ pc = "fetched"
    /\ raw \in SeqsUpTo(RawRows, MaxRaw)
    /\ unified = <<>>
    /\ InitIdleRecon
    /\ InitIdleAnalysis
    /\ InitIdleInit

\* One call of load() after the sheets were fetched.
Load ==
    /\ pc = "fetched"
    /\ unified' \in LoadOutcomes(raw)
    /\ pc' = "loaded"
    /\ UNCHANGED <<raw, reconVars, initVars, analysisVars>>

NextLoad == Load

SpecLoad == InitLoad /\ [][NextLoad]_vars

-----------------------------------------------------------------------------
(* Claims on load *)

\* C7: every interval load emits has a start, and its start precedes its
\* end when the end is present.
C7_StartPresentAndBeforeEnd ==
    pc = "loaded" =>
        \A i \in DOMAIN unified :
            /\ unified[i].Start # NaT
            /\ unified[i].finished # NaT
                  => unified[i].Start < unified[i].finished

\* A raw row with a missing required cell or a Time cell that does not parse.
Malformed(row) ==
    \/ ToDatetime(row.Time) = NaT
    \/ row.NetID = NaN \/ row.Action = NaN
    \/ row.EquipmentName = <<>> \/ row.Code = <<>>

\* C8: a malformed raw row is dropped: the intervals load returns are those
\* it returns for the batch without that row.
C8_MalformedDropped ==
    pc = "loaded" =>
        \A i \in DOMAIN raw :
            Malformed(raw[i]) => unified \in LoadOutcomes(RemoveAt(raw, i))

RowsOfItem(df, name) == SelectSeq(df, LAMBDA row : row.EquipmentName = name)

IntervalsOfItem(df, name) ==
    SelectSeq(df, LAMBDA r : r.item_name_with_num = name)

\* C9: the rows are partitioned by Equipment Name only: the intervals of an
\* item are those of the matching run over all its rows, whatever their
\* NetID, and they do not depend on the rows of other items.
C9_PartitionByItemKey ==
    pc = "loaded" =>
        \A k \in DOMAIN NameOrder :
            LET name == NameOrder[k]
                rows == RowsOfItem(MapCategories(ValidateData(raw)), name)
            IN  /\ \E out \in ProcessBorrowRecordsOutcomes(rows) :
                      BagOfSeq(Spans(out))
                         = BagOfSeq(Spans(IntervalsOfItem(unified, name)))
                /\ IntervalsOfItem(unified, name)
                      \in LoadOutcomes(RowsOfItem(raw, name))

-----------------------------------------------------------------------------
(* DatabaseManager.insert_data on the unified_records table.  The table is *)
(* the sequence of its rows in insertion order.                            *)

\* DELETE FROM unified_records WHERE source = ?  (committed at once)
DeleteSource(table, source) ==
    SelectSeq(table, LAMBDA row : row.source # source)

\* insert_data(df, source=source, replace=True) when to_sql succeeds.
InsertData(table, df, source) == DeleteSource(table, source) \o df

\* insert_data(df, source=source, replace=True) when to_sql raises: the
\* delete is already committed.
InsertDataRaises(table, df, source) == DeleteSource(table, source)

-----------------------------------------------------------------------------
(* The deduplication of init_database.  A Start cell of the historical     *)
(* frame is what read_excel returned: a datetime or a text.                *)

\* pd.to_datetime(df_historical['Start'], errors='coerce')
ToDatetimeCoerce(cell) == IF cell.fmt = "datetime" THEN cell.secs ELSE NaT

ConvertStart(df) ==
    [i \in DOMAIN df |-> [df[i] EXCEPT !.Start = ToDatetimeCoerce(@)]]

ExactSecond(t) == t

\* Series.dt.floor('min'): NaT stays NaT.
FloorMin(t) == IF t = NaT THEN NaT ELSE t - (t % Minute(1))

\* df['Start_min'] = df['Start'].dt.floor('min')
WithStartMin(df) ==
    [i \in DOMAIN df |-> df[i] @@ [Start_min |-> FloorMin(df[i].Start)]]

\* set(zip(df_historical['Start_min'], df_historical['item name(with num)']))
HistKeys(df) ==
    {<<df[i].Start_min, df[i].item_name_with_num>> : i \in DOMAIN df}

FilterFirstInHist(df, hist_keys) ==
    LET hits == {i \in DOMAIN df :
                    <<df[i].Start_min, df[i].item_name_with_num>>
                        \in hist_keys}
    IN  IF hits = {} THEN df
        ELSE RemoveAt(df, CHOOSE i \in hits : \A j \in hits : i <= j)

\* df_realtime[~df_realtime.apply(lambda x: (...) in hist_keys, axis=1)]
FilterNotInHist(df, hist_keys) ==
    SelectSeq(df, LAMBDA x :
        <<x.Start_min, x.item_name_with_num>> \notin hist_keys)

\* df.drop(columns=['Start_min'], errors='ignore')
DropStartMin(df) ==
    [i \in DOMAIN df |->
        [col \in (DOMAIN df[i]) \ {"Start_min"} |-> df[i][col]]]

\* df_historical as the deduplication leaves it.
HistoricalAfterDedup(dfh) == WithStartMin(ConvertStart(dfh))

\* df_realtime as the deduplication leaves it.
RealtimeAfterDedup(dfh, dfr) ==
    DropStartMin(FilterNotInHist(WithStartMin(dfr),
                                 HistKeys(HistoricalAfterDedup(dfh))))

\* The locals, the table and the returned value when init_database ends.
\* h_out, r_out: how the two loaders ended; failing: the insert whose to_sql
\* raises, if any.
InitDatabaseResult(h_out, dfh, r_out, dfr, failing, table) ==
    LET table1 ==
            IF h_out # "ok" THEN table
            ELSE IF failing = "historical"
                 THEN InsertDataRaises(table, dfh, "historical")
                 ELSE InsertData(table, dfh, "historical")
        dedup == h_out = "ok" /\ dfh # <<>>
        dfh2 == IF dedup THEN HistoricalAfterDedup(dfh) ELSE dfh
        dfr2 == IF dedup THEN RealtimeAfterDedup(dfh, dfr) ELSE dfr
    IN  IF h_out = "Exception" \/ (h_out = "ok" /\ failing = "historical")
        THEN [df_historical |-> dfh, df_realtime |-> <<>>,
              store |-> table1, ret |-> "False"]
        ELSE IF r_out = "Exception"
        THEN [df_historical |-> dfh, df_realtime |-> <<>>,
              store |-> table1, ret |-> "False"]
        ELSE IF dfr = <<>>
        THEN [df_historical |-> dfh, df_realtime |-> dfr,
              store |-> table1, ret |-> "True"]
        ELSE IF failing = "realtime"
        THEN [df_historical |-> dfh2, df_realtime |-> dfr2,
              store |-> InsertDataRaises(table1, dfr2, "realtime"),
              ret |-> "False"]
        ELSE [df_historical |-> dfh2, df_realtime |-> dfr2,
              store |-> InsertData(table1, dfr2, "realtime"),
              ret |-> "True"]

-----------------------------------------------------------------------------
(* Inputs of the initialisation specification *)

\* Two instants of one minute and one of the next.
T0 == Hour(9)

T0Later == Hour(9) + Second(30)

T1 == Hour(9) + Minute(1)

HistoricalRow(name, cell) ==
    [Start |-> cell, finished |-> NaT, duration_hours |-> NA,
     item_name |-> StripNumber(name), item_name_with_num |-> name,
     Category |-> "Cameras", source |-> "historical",
     sheet_source |-> "historical_raw_data"]

RealtimeRow(name, start) ==
    [Start |-> start, finished |-> NaT, duration_hours |-> NA,
     item_name |-> StripNumber(name), item_name_with_num |-> name,
     Category |-> "Unknown", source |-> "realtime",
     sheet_source |-> TARGET_SHEETS[1]]

HistoricalRows ==
    {HistoricalRow(n, c) :
        n \in {Camera1, Mic1},
        c \in {Cell("datetime", T0), Cell("datetime", T1), Cell("text", 0)}}

RealtimeRows ==
    {RealtimeRow(n, t) : n \in {Camera1, Mic1}, t \in {T0, T0Later, NaT}}

\* load_historical_data drops duplicates on (Start, item name(with num)).
HistoricalFrames ==
    {f \in SeqsUpTo(HistoricalRows, MaxHist) :
        \A i, j \in DOMAIN f : i # j => f[i] # f[j]}

RealtimeFrames == SeqsUpTo(RealtimeRows, MaxRealtime)

\* The table before the run: empty, or holding the rows of an earlier run.
StaleTable ==
    <<HistoricalRow(Camera1, Cell("datetime", T1)), RealtimeRow(Mic1, T0)>>

-----------------------------------------------------------------------------
(* Specification of one run of init_database *)

InitInit ==
    /\ pc = "start"
    /\ hist_outcome \in {"ok", "FileNotFoundError", "Exception"}
    /\ hist_in \in (IF hist_outcome = "ok" THEN HistoricalFrames ELSE {<<>>})
    /\ rt_outcome \in {"ok", "Exception"}
    /\ rt_in \in (IF rt_outcome = "ok" THEN RealtimeFrames ELSE {<<>>})
    /\ db_fail \in {"none", "historical", "realtime"}
    /\ store \in {<<>>, StaleTable}
    /\ df_historical = <<>> /\ df_realtime = <<>>
    /\ ret = "none"
    /\ InitIdleRecon
    /\ InitIdleAnalysis
    /\ InitIdleLoad

\* One call of init_database().
InitDatabase ==
    /\ pc = "start"
    /\ LET res == InitDatabaseResult(hist_outcome, hist_in, rt_outcome, rt_in,
                                     db_fail, store)
       IN  /\ df_historical' = res.df_historical
           /\ df_realtime' = res.df_realtime
           /\ store' = res.store
           /\ ret' = res.ret
    /\ pc' = "initialised"
    /\ UNCHANGED <<hist_outcome, hist_in, rt_outcome, rt_in, db_fail>>
    /\ UNCHANGED <<reconVars, loadVars, analysisVars>>

NextInit == InitDatabase

SpecInit == InitInit /\ [][NextInit]_vars

-----------------------------------------------------------------------------
(* Claims on the deduplication of init_database *)

\* Two instants fall in the same minute (two absent instants count as equal).
SameMinute(a, b) ==
    IF a = NaT \/ b = NaT THEN a = b
    ELSE a \div Minute(1) = b \div Minute(1)

\* Some historical row has the item name and the minute of start of r.
HasHistoricalTwin(r) ==
    \E i \in DOMAIN hist_in :
        /\ hist_in[i].item_name_with_num = r.item_name_with_num
        /\ SameMinute(ToDatetimeCoerce(hist_in[i].Start), r.Start)

\* init_database reached the deduplication step.
ReachedDedup ==
    /\ pc = "initialised"
    /\ hist_outcome # "Exception"
    /\ ~(hist_outcome = "ok" /\ db_fail = "historical")
    /\ rt_outcome = "ok"

\* C10: the deduplication keeps exactly the realtime rows with no historical
\* row of the same item name and the same minute of start, unchanged and in
\* their order; without historical rows it keeps all; without realtime rows
\* the result is empty.
C10_DedupKeepsUnmatched ==
    ReachedDedup =>
        /\ df_realtime = SelectSeq(rt_in, LAMBDA r : ~HasHistoricalTwin(r))
        /\ hist_in = <<>> => df_realtime = rt_in
        /\ rt_in = <<>> => df_realtime = <<>>

\* C10 witness: a realtime row was dropped for a historical row of the same
\* minute but another second, and a realtime row was kept.
C10_Witness ==
    /\ ReachedDedup
    /\ ret = "True"
    /\ hist_in # <<>>
    /\ df_realtime # <<>>
    /\ \E i \in DOMAIN rt_in :
          /\ HasHistoricalTwin(rt_in[i])
          /\ \A j \in DOMAIN hist_in :
                ToDatetimeCoerce(hist_in[j].Start) # rt_in[i].Start
          /\ \A k \in DOMAIN df_realtime : df_realtime[k] # rt_in[i]

-----------------------------------------------------------------------------
(* Claims on the deduplication as a function of the two loaded frames *)

\* The deduplication step of init_database on a non-empty realtime frame:
\* skipped when there is no historical frame or it is empty.
Deduplicate(dfh, dfr) ==
    IF dfh # <<>> THEN RealtimeAfterDedup(dfh, dfr) ELSE dfr

\* The deduplication step ran on a non-empty realtime frame.
DedupRan == ReachedDedup /\ rt_in # <<>>

\* C11: the deduplication is idempotent: deduplicating its own result
\* against the same historical frame gives that result again.
C11_DedupIdempotent ==
    DedupRan => Deduplicate(hist_in, df_realtime) = df_realtime

\* C11 witness: the deduplication dropped a realtime row and kept another,
\* and a second pass over what it kept drops nothing.
C11_Witness ==
    /\ DedupRan
    /\ hist_in # <<>>
    /\ df_realtime # <<>>
    /\ Len(df_realtime) < Len(rt_in)
    /\ Len(Deduplicate(hist_in, df_realtime)) = Len(df_realtime)

\* C12: the deduplication leaves the historical frame as it was loaded:
\* the same rows with the same columns and the same values.
C12_HistoricalUnchanged ==
    DedupRan => df_historical = hist_in

-----------------------------------------------------------------------------
(* update_realtime_data (update_realtime.py) and refresh_data (app/main.py) *)

\* The table and the returned value when update_realtime_data ends.
UpdateRealtimeResult(r_out, dfr, failing, table) ==
    IF r_out = "Exception" THEN [store |-> table, ret |-> "False"]
    ELSE IF dfr = <<>> THEN [store |-> table, ret |-> "False"]
    ELSE IF failing = "realtime"
    THEN [store |-> InsertDataRaises(table, dfr, "realtime"),
          ret |-> "False"]
    ELSE [store |-> InsertData(table, dfr, "realtime"), ret |-> "True"]

\* The table when refresh_data(mode) ends; every exception is caught and
\* reported, and nothing is returned.
RefreshDataResult(mode, h_out, dfh, r_out, dfr, failing, table) ==
    LET table1 ==
            IF mode # "all" THEN table
            ELSE IF h_out # "ok" THEN table
            ELSE IF failing = "historical"
                 THEN InsertDataRaises(table, dfh, "historical")
                 ELSE InsertData(table, dfh, "historical")
        stopped == mode = "all" /\ (h_out # "ok" \/ failing = "historical")
    IN  IF stopped \/ r_out = "Exception"
        THEN [store |-> table1, ret |-> "None"]
        ELSE IF failing = "realtime"
        THEN [store |-> InsertDataRaises(table1, dfr, "realtime"),
              ret |-> "None"]
        ELSE [store |-> InsertData(table1, dfr, "realtime"), ret |-> "None"]

-----------------------------------------------------------------------------
(* Specification of repeated runs of the three entry points over one table. *)
(* The frames the loaders return overlap: the same item at the same minute  *)
(* appears in the historical file and in the sheets.                        *)

RunHistoricalRows ==
    {HistoricalRow(Camera1, Cell("datetime", T0)),
     HistoricalRow(Mic1, Cell("datetime", T1))}

RunRealtimeRows ==
    {RealtimeRow(Camera1, T0), RealtimeRow(Camera1, T0Later),
     RealtimeRow(Mic1, T0)}

RunHistoricalFrames ==
    {f \in SeqsUpTo(RunHistoricalRows, MaxHist) :
        \A i, j \in DOMAIN f : i # j => f[i] # f[j]}

RunRealtimeFrames == SeqsUpTo(RunRealtimeRows, MaxRealtime)

HistOutcomes == {"ok", "FileNotFoundError", "Exception"}

RealtimeOutcomes == {"ok", "Exception"}

Failings == {"none", "historical", "realtime"}

InitRuns ==
    /\ pc = "start"
    /\ store = <<>>
    /\ ret = "none"
    /\ hist_outcome = "ok" /\ hist_in = <<>>
    /\ rt_outcome = "ok" /\ rt_in = <<>>
    /\ df_historical = <<>> /\ df_realtime = <<>>
    /\ db_fail = "none"
    /\ InitIdleRecon
    /\ InitIdleAnalysis
    /\ InitIdleLoad

RunFrame == <<hist_outcome, hist_in, rt_outcome, rt_in, df_historical,
              df_realtime, db_fail, reconVars, loadVars, analysisVars>>

\* One run of init_database().
RunInitDatabase ==
    /\ \E h_out \in HistOutcomes, r_out \in RealtimeOutcomes,
          failing \in Failings :
          \E dfh \in (IF h_out = "ok" THEN RunHistoricalFrames ELSE {<<>>}),
             dfr \in (IF r_out = "ok" THEN RunRealtimeFrames ELSE {<<>>}) :
             LET res == InitDatabaseResult(h_out, dfh, r_out, dfr, failing,
                                           store)
             IN  store' = res.store /\ ret' = res.ret
    /\ pc' = "init_database"
    /\ UNCHANGED RunFrame

\* One run of update_realtime_data().
RunUpdateRealtimeData ==
    /\ \E r_out \in RealtimeOutcomes, failing \in Failings :
          \E dfr \in (IF r_out = "ok" THEN RunRealtimeFrames ELSE {<<>>}) :
             LET res == UpdateRealtimeResult(r_out, dfr, failing, store)
             IN  store' = res.store /\ ret' = res.ret
    /\ pc' = "update_realtime_data"
    /\ UNCHANGED RunFrame

\* One run of refresh_data(mode).
RunRefreshData ==
    /\ \E mode \in {"all", "realtime"}, h_out \in HistOutcomes,
          r_out \in RealtimeOutcomes, failing \in Failings :
          \E dfh \in (IF h_out = "ok" THEN RunHistoricalFrames ELSE {<<>>}),
             dfr \in (IF r_out = "ok" THEN RunRealtimeFrames ELSE {<<>>}) :
             LET res == RefreshDataResult(mode, h_out, dfh, r_out, dfr,
                                          failing, store)
             IN  store' = res.store /\ ret' = res.ret
    /\ pc' = "refresh_data"
    /\ UNCHANGED RunFrame

NextRuns == RunInitDatabase \/ RunUpdateRealtimeData \/ RunRefreshData

SpecRuns == InitRuns /\ [][NextRuns]_vars

-----------------------------------------------------------------------------
(* Claims on the table across runs *)

\* A stored realtime row and a stored historical row with the same item
\* name(with num) and the same minute of Start.
StoredTwins(table) ==
    {<<i, j>> \in (DOMAIN table) \X (DOMAIN table) :
        /\ table[i].source = "realtime"
        /\ table[j].source = "historical"
        /\ table[i].item_name_with_num = table[j].item_name_with_num
        /\ SameMinute(table[i].Start, ToDatetimeCoerce(table[j].Start))}

\* C13: after any sequence of runs of init_database, update_realtime_data
\* and refresh_data, no stored realtime row has the item name and minute of
\* start of a stored historical row.
C13_NoStoredTwins == StoredTwins(store) = {}

-----------------------------------------------------------------------------
(* Claims on the table after one run of init_database *)

\* C14: whenever init_database returns True, the table holds exactly the
\* historical rows loaded in that run and the deduplicated realtime rows
\* loaded in that run, whatever it held before.
C14_StoreIsFunctionOfInputs ==
    (pc = "initialised" /\ ret = "True") =>
        BagOfSeq(store) = BagOfSeq(hist_in \o Deduplicate(hist_in, rt_in))

-----------------------------------------------------------------------------
(* AnalysisStrategy.load_data: DatabaseManager.query and                   *)
(* DataProcessor.prepare_for_analysis.  A row of the table as read_sql     *)
(* returns it holds Start and finished as text cells; a NULL is the cell   *)
(* of format NaN.  Instants are counted from midnight of day 0.             *)

Day(d) == Second(d * 86400)

None == "None"

HistoricalFormats ==
    {"%Y-%m-%d %H:%M:%S.%f", IsoFormat, "%Y/%m/%d %H:%M:%S"}

\* The text of a stored 'YYYY-MM-DD HH:MM:SS' cell, as <<date, time of
\* day>>, and the text 'YYYY-MM-DD' of a date, as <<date>>; the empty text
\* is no date.
TextOfCell(cell) == <<cell.secs \div Day(1), cell.secs % Day(1)>>

DateText(d) == <<d>>

\* a <= b as SQLite compares two texts: position by position, a text
\* that is a proper prefix of the other being the smaller.
RECURSIVE TextLE(_, _)
TextLE(a, b) ==
    IF a = <<>> THEN TRUE
    ELSE IF b = <<>> THEN FALSE
    ELSE IF Head(a) # Head(b) THEN Head(a) < Head(b)
    ELSE TextLE(Tail(a), Tail(b))

\* DatabaseManager.query(source, category, start_date, end_date,
\* exclude_inventory); a comparison with a NULL Start is not true.
Query(table, source, category, start_date, end_date, exclude_inventory) ==
    SelectSeq(table, LAMBDA row :
        /\ source # None => row.source = source
        /\ category # None => row.Category = category
        /\ start_date # <<>> =>
              /\ row.Start.fmt # NaN
              /\ TextLE(start_date, TextOfCell(row.Start))
        /\ end_date # <<>> =>
              /\ row.Start.fmt # NaN
              /\ TextLE(TextOfCell(row.Start), end_date)
        /\ exclude_inventory => row.sheet_source # "Inventory")

\* DataProcessor.parse_dates on one cell: the realtime format, then the
\* historical formats, then inference; what none of them reads is NaT.
ParseDate(cell) ==
    IF cell.fmt \in {RealtimeFormat} \cup HistoricalFormats
    THEN cell.secs
    ELSE NaT

parse_dates(df) ==
    [i \in DOMAIN df |->
        [df[i] EXCEPT !.Start = ParseDate(@), !.finished = ParseDate(@)]]

\* df['finished'].fillna(pd.Timestamp.now())
FillFinished(df, t) ==
    [i \in DOMAIN df |->
        [df[i] EXCEPT !.finished = IF @ = NaT THEN t ELSE @]]

\* DataProcessor.prepare_for_analysis
prepare_for_analysis(df, t) ==
    IF df = <<>> THEN df
    ELSE FillFinished(
             SelectSeq(parse_dates(df), LAMBDA row : row.Start # NaT), t)

\* AnalysisStrategy.load_data(mode, category, start_date, end_date)
load_data(table, mode, category, start_date, end_date, t) ==
    prepare_for_analysis(
        Query(table, IF mode = "all" THEN None ELSE mode, category,
              start_date, end_date, mode = "realtime"),
        t)

-----------------------------------------------------------------------------
(* SingleItemAnalysis and DurationAnalysis *)

RECURSIVE SumDelta(_)
SumDelta(events) ==
    IF events = <<>> THEN 0
    ELSE Head(events).delta + SumDelta(Tail(events))

\* int(x > 0)
Binary(x) == IF x > 0 THEN 1 ELSE 0

\* The frame of 2N events: the starts with +1, then the ends with -1.
Events(df, t) ==
    LET filled == FillFinished(df, t)
    IN  [i \in DOMAIN df |-> [Time |-> filled[i].Start, delta |-> 1]]
        \o [i \in DOMAIN df |-> [Time |-> filled[i].finished, delta |-> -1]]

WithStatusOfDelta(sorted) ==
    [i \in DOMAIN sorted |->
        [date |-> sorted[i].Time,
         delta |-> sorted[i].delta,
         status |-> Binary(sorted[i].delta)]]

\* timeline['delta'].cumsum(), then (status > 0).astype(int)
WithStatus(sorted) ==
    [i \in DOMAIN sorted |->
        [date |-> sorted[i].Time,
         delta |-> sorted[i].delta,
         status |-> Binary(SumDelta(SubSeq(sorted, 1, i)))]]

\* SingleItemAnalysis._build_timeline: the timelines it may return, one per
\* order sort_values('date') may give to rows of equal date.
_build_timeline(df, t) ==
    {WithStatus(sorted) : sorted \in SortValues(Events(df, t))}

MinTime(events) ==
    CHOOSE x \in {e.Time : e \in Range(events)} :
        \A e \in Range(events) : x <= e.Time

MaxTime(events) ==
    CHOOSE x \in {e.Time : e \in Range(events)} :
        \A e \in Range(events) : x >= e.Time

KeepTimeOfDay(t) == t

\* Timestamp.normalize(): midnight of the day of t.
Normalize(t) == t - (t % Day(1))

\* pd.date_range(start_day, end_day, freq='D')
DateRange(start_day, end_day) ==
    [k \in 1..((end_day - start_day) \div Day(1) + 1) |->
        start_day + Day(k - 1)]

SumOfDay(events, day) ==
    SumDelta(SelectSeq(events,
                       LAMBDA e : e.Time >= day /\ e.Time < day + Day(1)))

\* events.loc[events['time'] <= cutoff, 'delta'].sum() for the cutoff of day
SumUpToCutoff(events, day) ==
    LET cutoff == day + Day(1) - Second(1)
    IN  SumDelta(SelectSeq(events, LAMBDA e : e.Time <= cutoff))

\* get_status_on_day
get_status_on_day(events, day) == Binary(SumUpToCutoff(events, day))

\* DurationAnalysis._build_daily_timeline
_build_daily_timeline(df, t) ==
    LET events == Events(df, t)
        date_range == DateRange(Normalize(MinTime(events)),
                                Normalize(MaxTime(events)))
    IN  [k \in DOMAIN date_range |->
            [date |-> date_range[k],
             status |-> get_status_on_day(events, date_range[k])]]

AllRows(df, item_with_num) == df

\* df[df['item name(with num)'] == item_with_num]
ItemRows(df, item_with_num) ==
    SelectSeq(df, LAMBDA row : row.item_name_with_num = item_with_num)

\* The no-data outcome of both analyze methods.
NoRecords(item_with_num) ==
    [success |-> FALSE,
     message |-> <<"no borrow records of item", item_with_num>>,
     timeline |-> <<>>]

\* SingleItemAnalysis.analyze without a date range: the dicts it may return.
SingleItemAnalyze(table, req, t) ==
    LET df == load_data(table, req.mode, req.category, <<>>, <<>>, t)
        df_item == ItemRows(df, req.item_with_num)
        events == Events(df_item, t)
    IN  IF df_item = <<>> THEN {NoRecords(req.item_with_num)}
        ELSE {[success |-> TRUE,
               item_name |-> req.item_with_num,
               timeline |-> timeline,
               total_borrows |-> Len(df_item),
               date_range |->
                   [start |-> MinTime(SubSeq(events, 1, Len(df_item))),
                    end |-> MaxTime(SubSeq(events, Len(df_item) + 1,
                                           Len(events)))]] :
              timeline \in _build_timeline(df_item, t)}

\* DurationAnalysis.analyze: the dict it returns.
DurationAnalyze(table, req, t) ==
    LET df == load_data(table, req.mode, req.category, <<>>, <<>>, t)
        df_item == ItemRows(df, req.item_with_num)
        timeline == _build_daily_timeline(df_item, t)
    IN  IF df_item = <<>> THEN NoRecords(req.item_with_num)
        ELSE [success |-> TRUE,
              item_name |-> req.item_with_num,
              timeline |-> timeline,
              total_borrows |-> Len(df_item),
              date_range |-> [start |-> timeline[1].date,
                              end |-> timeline[Len(timeline)].date]]

-----------------------------------------------------------------------------
(* Inputs of the analysis specification: the table as stored, the          *)
(* arguments of analyze, and the clock.                                    *)

MaxIntervals == 2

\* Instants of three days: two of day 0, midnight and a later instant of
\* day 1, one of day 2.
AnalysisTimes ==
    {Day(0) + Hour(10), Day(0) + Hour(15), Day(1), Day(1) + Hour(10),
     Day(2) + Hour(15)}

\* The clock is not behind the stored instants: an instant of day 2, and
\* half a second after 23:59:59 of day 2.
Clock == {Day(2) + Hour(15), Day(3) - 1}

Null == Cell(NaN, 0)

Stored(t) == IF t = NaT THEN Null ELSE Cell(IsoFormat, t)

StoredRow(name, start, end, category, source, sheet) ==
    [Start |-> Stored(start), finished |-> Stored(end),
     duration_hours |->
         IF start = NaT \/ end = NaT THEN NA
         ELSE RoundHalfEven(end - start, Hour(1)),
     item_name |-> StripNumber(name), item_name_with_num |-> name,
     Category |-> category, source |-> source, sheet_source |-> sheet]

\* Intervals of 'Camera 1' from the sheets: closed, open, and one without
\* Start.
CameraRows ==
    {StoredRow(Camera1, ab[1], ab[2], "Cameras", "realtime",
               TARGET_SHEETS[1]) :
        ab \in {x \in AnalysisTimes \X (AnalysisTimes \cup {NaT}) :
                   x[2] = NaT \/ x[2] > x[1]}}
    \cup {StoredRow(Camera1, NaT, NaT, "Cameras", "realtime",
                    TARGET_SHEETS[1]),
          StoredRow(Camera1, Day(0) + Hour(10), NaT, "Cameras", "realtime",
                    "Inventory")}

\* Intervals of 'Mic 1' from the historical file.
MicRows ==
    {StoredRow(Mic1, Day(0) + Hour(10), b, "Audio", "historical",
               "historical_raw_data") :
        b \in {Day(0) + Hour(15), NaT}}

AnalysisTables == SeqsUpTo(CameraRows \cup MicRows, MaxIntervals)

Requests ==
    {[item_with_num |-> name, mode |-> m[1], category |-> m[2]] :
        name \in {Camera1, Mic1},
        m \in {<<"all", None>>, <<"realtime", None>>, <<"all", "Cameras">>}}

-----------------------------------------------------------------------------
(* Specification of one call of analyze on a stored table *)

InitAnalysis ==
    /\ pc = "request"
    /\ store \in AnalysisTables
    /\ request \in Requests
    /\ now \in Clock
    /\ result = <<>>
    /\ ret = "none"
    /\ hist_outcome = "ok" /\ hist_in = <<>>
    /\ rt_outcome = "ok" /\ rt_in = <<>>
    /\ df_historical = <<>> /\ df_realtime = <<>>
    /\ db_fail = "none"
    /\ InitIdleRecon
    /\ InitIdleLoad

AnalysisFrame == <<store, request, now, ret, hist_outcome, hist_in,
                   rt_outcome, rt_in, df_historical, df_realtime, db_fail,
                   reconVars, loadVars>>

\* One call of SingleItemAnalysis().analyze(item_with_num, category, mode).
AnalyzeSingleItem ==
    /\ pc = "request"
    /\ result' \in SingleItemAnalyze(store, request, now)
    /\ pc' = "single"
    /\ UNCHANGED AnalysisFrame

\* One call of DurationAnalysis().analyze(item_with_num, category, mode).
AnalyzeDuration ==
    /\ pc = "request"
    /\ result' = DurationAnalyze(store, request, now)
    /\ pc' = "duration"
    /\ UNCHANGED AnalysisFrame

NextAnalysis == AnalyzeSingleItem \/ AnalyzeDuration

SpecAnalysis == InitAnalysis /\ [][NextAnalysis]_vars

-----------------------------------------------------------------------------
(* Claims on the timelines.  The intervals of the requested item are read   *)
(* off the table: the rows the query selects, with a Start, of that item;   *)
(* the end of an interval without one is the current time.                  *)

Intervals ==
    SelectSeq(parse_dates(Query(store,
                                IF request.mode = "all" THEN None
                                ELSE request.mode,
                                request.category, <<>>, <<>>,
                                request.mode = "realtime")),
              LAMBDA r : /\ r.Start # NaT
                         /\ r.item_name_with_num = request.item_with_num)

EndOf(r) == IF r.finished = NaT THEN now ELSE r.finished

\* Sum of the deltas with timestamp at or before t.
OccupancyAt(t) ==
    Cardinality({i \in DOMAIN Intervals : Intervals[i].Start <= t})
    - Cardinality({i \in DOMAIN Intervals : EndOf(Intervals[i]) <= t})

Boundaries ==
    [i \in DOMAIN Intervals |-> <<Intervals[i].Start, 1>>]
    \o [i \in DOMAIN Intervals |-> <<EndOf(Intervals[i]), -1>>]

BoundaryTimes == {Boundaries[i][1] : i \in DOMAIN Boundaries}

Built(position) == pc = position /\ result.success

\* Midnight of the calendar day of t.
MidnightOf(t) == Day(t \div Day(1))

\* The last second, 23:59:59, of the calendar day that starts at midnight
\* `day'.
CloseOf(day) == day + Day(1) - Second(1)

\* C15: the continuous timeline of N intervals lists the 2N boundaries (+1
\* at each start, -1 at each end, the current time for an absent end) in
\* non-decreasing order with a status 0 or 1 per row, and the status of the
\* last row of each timestamp t is 1 exactly when the deltas at or before t
\* sum to more than 0.
C15_ContinuousTimeline ==
    Built("single") =>
        LET tl == result.timeline
        IN  /\ Len(tl) = 2 * Len(Intervals)
            /\ BagOfSeq([i \in DOMAIN tl |-> <<tl[i].date, tl[i].delta>>])
                  = BagOfSeq(Boundaries)
            /\ \A i \in DOMAIN tl :
                  /\ tl[i].status \in {0, 1}
                  /\ i < Len(tl) => tl[i].date <= tl[i + 1].date
                  /\ (i = Len(tl) \/ tl[i + 1].date # tl[i].date)
                        => (tl[i].status = 1
                               <=> OccupancyAt(tl[i].date) > 0)

\* C15 witness: a timeline of an item with an interval without end, in
\* which two rows share a timestamp and report different statuses.
C15_Witness ==
    /\ Built("single")
    /\ \E i \in DOMAIN Intervals : Intervals[i].finished = NaT
    /\ \E i \in 1..(Len(result.timeline) - 1) :
          /\ result.timeline[i].date = result.timeline[i + 1].date
          /\ result.timeline[i].status # result.timeline[i + 1].status

CheckedOutDuring(day) ==
    \E i \in DOMAIN Intervals :
        /\ Intervals[i].Start < day + Day(1)
        /\ EndOf(Intervals[i]) > day

ExampleC17 ==
    <<Event(CheckOut, Hour(10), TARGET_SHEETS[1]),
      Event(CheckIn, Hour(15), TARGET_SHEETS[1])>>

\* C17: a day during which the item was checked out at some instant is
\* marked 1; the events [CheckOut 10:00, CheckIn 15:00] of one day give one
\* closed interval of 5 hours and the daily timeline [1].
C17_DayWithCheckoutMarked ==
    /\ LET recs == MatchRecords(ExampleC17)
       IN  /\ Len(recs) = 1
           /\ Timings(recs) = << <<Hour(10), Hour(15), 5>> >>
    /\ Built("duration") =>
          \A k \in DOMAIN result.timeline :
              CheckedOutDuring(result.timeline[k].date)
                  => result.timeline[k].status = 1

\* C18: if a day has status 1 and no interval ends after its close and at
\* or before the close of the next day, the next day has status 1.
C18_DailyMonotone ==
    Built("duration") =>
        LET tl == result.timeline
        IN  \A k \in 1..(Len(tl) - 1) :
                (/\ tl[k].status = 1
                 /\ ~\E i \in DOMAIN Intervals :
                        /\ EndOf(Intervals[i]) > CloseOf(tl[k].date)
                        /\ EndOf(Intervals[i]) <= CloseOf(tl[k + 1].date))
                    => tl[k + 1].status = 1

\* C18 witness: two consecutive days of status 1 with no end between their
\* closes, followed by a day of status 0.
C18_Witness ==
    /\ Built("duration")
    /\ \E k \in 1..(Len(result.timeline) - 2) :
          /\ result.timeline[k].status = 1
          /\ result.timeline[k + 1].status = 1
          /\ result.timeline[k + 2].status = 0
          /\ ~\E i \in DOMAIN Intervals :
                 /\ EndOf(Intervals[i]) > CloseOf(result.timeline[k].date)
                 /\ EndOf(Intervals[i])
                       <= CloseOf(result.timeline[k + 1].date)

\* C19: when the analysed set holds no interval of the requested item, both
\* analyze methods return the no-data outcome: success False, a message and
\* an empty timeline.
C19_NoDataOutcome ==
    (pc \in {"single", "duration"} /\ Intervals = <<>>) =>
        /\ result.success = FALSE
        /\ "message" \in DOMAIN result
        /\ result.timeline = <<>>

\* C19 witness: the table holds intervals, none of them of the requested
\* item, and the call returned the no-data outcome.
C19_Witness ==
    /\ pc \in {"single", "duration"}
    /\ store # <<>>
    /\ \E i \in DOMAIN store : ParseDate(store[i].Start) # NaT
    /\ Intervals = <<>>
    /\ result.success = FALSE

-----------------------------------------------------------------------------
(* TopNAnalysis.analyze.  A metric value is a fraction <<numerator,        *)
(* denominator>>: a count or a sum over 1, a mean as sum over count.       *)

Camera2 == <<"Camera", "2">>

TIME_PERIODS == [Day |-> "D", Week |-> "W", Month |-> "M", Year |-> "Y"]

\* df['Start'].dt.to_period(freq).dt.start_time, day 0 being Wednesday
\* 1 January 2025: the midnight that opens the day, the Monday-to-Sunday
\* week, the month or the year of t.
PeriodStart(t, period) ==
    LET d == t \div Day(1)
        freq == TIME_PERIODS[period]
    IN  CASE freq = "D" -> Day(d)
          [] freq = "W" -> Day(d - ((d + 2) % 7))
          [] freq = "M" -> IF d < 31 THEN Day(0) ELSE Day(31)
          [] freq = "Y" -> Day(0)

ItemsOf(df) == {df[i].item_name_with_num : i \in DOMAIN df}

RECURSIVE SumDuration(_)
SumDuration(df) ==
    IF df = <<>> THEN 0
    ELSE Head(df).duration_hours + SumDuration(Tail(df))

\* df['item name(with num)'].value_counts()[item]
CountMetric(df, item) == <<Len(ItemRows(df, item)), 1>>

\* groupby('item name(with num)')['duration (hours)'].sum()[item]
TotalDurationMetric(df_duration, item) ==
    <<SumDuration(ItemRows(df_duration, item)), 1>>

\* groupby('item name(with num)')['duration (hours)'].mean()[item]
AvgDurationMetric(df_duration, item) ==
    <<SumDuration(ItemRows(df_duration, item)),
      Len(ItemRows(df_duration, item))>>

MetricGreater(x, y) == x[1] * y[2] > y[1] * x[2]

\* x < y for two metric values.
MetricLess(x, y) == x[1] * y[2] < y[1] * x[2]

\* A series (index -> value) sorted by value, descending: the orders of its
\* index the sort may give, items of equal value in any order.
SortedDescending(series) ==
    {f \in [1..Cardinality(DOMAIN series) -> DOMAIN series] :
        /\ \A i, j \in DOMAIN f : i # j => f[i] # f[j]
        /\ \A i, j \in DOMAIN f :
              i < j => ~MetricLess(series[f[i]], series[f[j]])}

\* Series.head(n).index, n >= 1
HeadIndex(series, n) ==
    SubSeq(series, 1, IF n < Len(series) THEN n ELSE Len(series))

\* The ascending sequence of a set of instants.
Ascending(S) ==
    CHOOSE f \in [1..Cardinality(S) -> S] :
        \A i, j \in DOMAIN f : i < j => f[i] < f[j]

WithPeriodOfEnd(df, period) ==
    [i \in DOMAIN df |->
        df[i] @@ [period |-> PeriodStart(df[i].finished, period)]]

\* df['period'] = df['Start'].dt.to_period(...).dt.start_time
WithPeriod(df, period) ==
    [i \in DOMAIN df |->
        df[i] @@ [period |-> PeriodStart(df[i].Start, period)]]

\* TopNAnalysis._create_time_series followed by the selection of the top
\* columns in their order: the periods, the columns, and the count of each
\* (period, item).
Pivot(df_top, top_items) ==
    LET index == Ascending({df_top[i].period : i \in DOMAIN df_top})
    IN  [index |-> index,
         columns |-> SelectSeq(top_items,
                               LAMBDA c : c \in ItemsOf(df_top)),
         counts |->
             [cell \in Range(index) \X ItemsOf(df_top) |->
                 Cardinality({i \in DOMAIN df_top :
                     /\ df_top[i].period = cell[1]
                     /\ df_top[i].item_name_with_num = cell[2]})]]

NoTopN(message) ==
    [success |-> FALSE, message |-> message, pivot |-> <<>>,
     detail_data |-> <<>>]

\* The successful return of TopNAnalysis.analyze for one order of the
\* metric series.
TopNResult(df, req, metric_series) ==
    LET top_items == HeadIndex(metric_series, req.top_n)
        df_top == WithPeriod(
                      SelectSeq(df, LAMBDA row :
                          row.item_name_with_num \in Range(top_items)),
                      req.period)
        starts == [i \in DOMAIN df |-> [Time |-> df[i].Start]]
    IN  [success |-> TRUE,
         pivot |-> Pivot(df_top, top_items),
         detail_data |-> df_top,
         top_n |-> req.top_n,
         period |-> req.period,
         metric |-> req.metric,
         category |-> IF req.category # None THEN req.category
                      ELSE "All Categories",
         date_range |-> [start |-> MinTime(starts), end |-> MaxTime(starts)]]

KeepNaDuration(df) == df

\* df[df[duration_col].notna()]
NotNaDuration(df) == SelectSeq(df, LAMBDA row : row.duration_hours # NA)

\* TopNAnalysis.analyze without a date range: the dicts it may return.  An
\* item_name that is None or empty is the empty name.
TopNAnalyze(table, req, t) ==
    LET loaded == load_data(table, req.mode, req.category, <<>>, <<>>, t)
        df == IF req.item_name # <<>>
              THEN SelectSeq(loaded, LAMBDA row : row.item_name = req.item_name)
              ELSE loaded
        df_duration == NotNaDuration(df)
        counts == [item \in ItemsOf(df) |-> CountMetric(df, item)]
        totals == [item \in ItemsOf(df_duration) |->
                      TotalDurationMetric(df_duration, item)]
        means == [item \in ItemsOf(df_duration) |->
                     AvgDurationMetric(df_duration, item)]
    IN  IF df = <<>> THEN {NoTopN("No matching borrow records found")}
        ELSE IF req.metric = "Count"
        THEN {TopNResult(df, req, series) : series \in SortedDescending(counts)}
        ELSE IF df_duration = <<>>
        THEN {NoTopN("No non-empty duration values; cannot sort by duration")}
        ELSE IF req.metric = "Total Duration"
        THEN {TopNResult(df, req, series) : series \in SortedDescending(totals)}
        ELSE {TopNResult(df, req, series) : series \in SortedDescending(means)}

-----------------------------------------------------------------------------
(* Inputs and specification of one call of TopNAnalysis.analyze *)

MaxTopRows == 3

TopRow(name, end, category) ==
    StoredRow(name, Day(0) + Hour(10), end, category, "realtime",
              TARGET_SHEETS[1])

\* Intervals of three items, of 5 hours, of 14 hours, and without end, the
\* one of 'Camera 1' without end starting on the Monday of the next week.
TopRows ==
    {TopRow(Camera1, b, "Cameras") : b \in {Day(0) + Hour(15), Day(1)}}
    \cup {StoredRow(Camera1, Day(5) + Hour(10), NaT, "Cameras", "realtime",
                    TARGET_SHEETS[1])}
    \cup {TopRow(Camera2, b, "Cameras") : b \in {Day(0) + Hour(15), NaT}}
    \cup {TopRow(Mic1, b, "Audio") : b \in {Day(1), NaT}}

\* A table with 3 intervals of 'Camera 1', 5 of 'Camera 2', 1 of 'Mic 1'.
ExampleC20 ==
    [i \in 1..9 |->
        IF i <= 3 THEN TopRow(Camera1, Day(0) + Hour(15), "Cameras")
        ELSE IF i <= 8 THEN TopRow(Camera2, Day(0) + Hour(15), "Cameras")
        ELSE TopRow(Mic1, Day(1), "Audio")]

TopTables == SeqsUpTo(TopRows, MaxTopRows) \cup {ExampleC20}

Metrics == {"Count", "Total Duration", "Avg Duration"}

TopRequests ==
    {[mode |-> "all", category |-> None, top_n |-> n, period |-> p,
      metric |-> m, item_name |-> name] :
        n \in {1, 2}, p \in DOMAIN TIME_PERIODS, m \in Metrics,
        name \in {<<>>, <<"Camera">>}}

InitTopN ==
    /\ pc = "request"
    /\ store \in TopTables
    /\ request \in TopRequests
    /\ now = Day(6) + Hour(12)
    /\ result = <<>>
    /\ ret = "none"
    /\ hist_outcome = "ok" /\ hist_in = <<>>
    /\ rt_outcome = "ok" /\ rt_in = <<>>
    /\ df_historical = <<>> /\ df_realtime = <<>>
    /\ db_fail = "none"
    /\ InitIdleRecon
    /\ InitIdleLoad

\* One call of TopNAnalysis().analyze(category, mode, top_n, period, metric,
\* item_name).
AnalyzeTopN ==
    /\ pc = "request"
    /\ result' \in TopNAnalyze(store, request, now)
    /\ pc' = "topn"
    /\ UNCHANGED AnalysisFrame

NextTopN == AnalyzeTopN

SpecTopN == InitTopN /\ [][NextTopN]_vars

-----------------------------------------------------------------------------
(* Claims on the Top N ranking.  The analysed set is read off the table:    *)
(* the rows the query selects, with a Start, of the requested item name.    *)

TopIntervals ==
    SelectSeq(parse_dates(Query(store,
                                IF request.mode = "all" THEN None
                                ELSE request.mode,
                                request.category, <<>>, <<>>,
                                request.mode = "realtime")),
              LAMBDA r : /\ r.Start # NaT
                         /\ request.item_name # <<>>
                               => r.item_name = request.item_name)

DistinctItems == {TopIntervals[i].item_name_with_num : i \in DOMAIN TopIntervals}

IntervalsWithDuration(item) ==
    SelectSeq(TopIntervals, LAMBDA r : /\ r.item_name_with_num = item
                                       /\ r.duration_hours # NA)

\* The value of the requested metric for an item, as a fraction.
MetricOf(item) ==
    CASE request.metric = "Count" ->
            <<Cardinality({i \in DOMAIN TopIntervals :
                              TopIntervals[i].item_name_with_num = item}), 1>>
      [] request.metric = "Total Duration" ->
            <<SumDuration(IntervalsWithDuration(item)), 1>>
      [] request.metric = "Avg Duration" ->
            <<SumDuration(IntervalsWithDuration(item)),
              Len(IntervalsWithDuration(item))>>

ValueBelow(x, y) == x[1] * y[2] < y[1] * x[2]

\* The items that have a value of the requested metric.
RankableItems ==
    {item \in DistinctItems :
        request.metric = "Count" \/ IntervalsWithDuration(item) # <<>>}

Ranked == result.pivot.columns

Least(a, b) == IF a < b THEN a ELSE b

IsExampleC20 ==
    /\ store = ExampleC20
    /\ request.metric = "Count"
    /\ request.top_n = 2
    /\ request.item_name = <<>>

\* The returned items are in descending order of the metric and none of
\* the items of `others' left out has a greater value than a returned one.
RankedDescendingAmong(others) ==
    /\ \A i, j \in DOMAIN Ranked :
          i < j => ~ValueBelow(MetricOf(Ranked[i]), MetricOf(Ranked[j]))
    /\ \A x \in others \ Range(Ranked) :
          \A i \in DOMAIN Ranked :
              ~ValueBelow(MetricOf(Ranked[i]), MetricOf(x))

\* C20 as stated: the returned items are the first min(K, number of
\* distinct items) of the items in descending order of the metric; counts
\* {A: 3, B: 5, C: 1} with Count and K = 2 give [B, A].
C20_TopNOfAllItems ==
    Built("topn") =>
        /\ Len(Ranked) = Least(request.top_n, Cardinality(DistinctItems))
        /\ RankedDescendingAmong(DistinctItems)
        /\ IsExampleC20 => Ranked = <<Camera2, Camera1>>

\* C20 amended: the returned items are the first min(K, number of items
\* that have a value of the metric) of those items in descending order of
\* the metric: every item for Count, the items with an interval with a
\* duration for the duration metrics; the example gives [B, A].
C20_TopNOfRankableItems ==
    Built("topn") =>
        /\ Len(Ranked) = Least(request.top_n, Cardinality(RankableItems))
        /\ Range(Ranked) \subseteq RankableItems
        /\ \A i, j \in DOMAIN Ranked : i # j => Ranked[i] # Ranked[j]
        /\ RankedDescendingAmong(RankableItems)
        /\ IsExampleC20 => Ranked = <<Camera2, Camera1>>

\* C20 witness: a ranking by a duration metric over three items, one left
\* out with a smaller value than the returned one and one without any
\* duration.
C20_Witness ==
    /\ Built("topn")
    /\ request.metric # "Count"
    /\ Cardinality(DistinctItems) = 3
    /\ Len(Ranked) = 1
    /\ \E x \in RankableItems :
          ValueBelow(MetricOf(x), MetricOf(Ranked[1]))
    /\ DistinctItems # RankableItems

\* The place of an item key in the natural (ascending) order of the keys.
KeyRank(item) ==
    CASE item = Camera1 -> 1
      [] item = Camera2 -> 2
      [] item = Mic1 -> 3

SameValue(x, y) == ~ValueBelow(x, y) /\ ~ValueBelow(y, x)

\* C21: in the returned ranking, items of equal metric value stand in
\* ascending order of their key, and an item left out with the value of a
\* returned one has a greater key, so that the returned top K is fixed by
\* the interval set alone.
C21_TiesInKeyOrder ==
    Built("topn") =>
        /\ \A i, j \in DOMAIN Ranked :
              (i < j /\ SameValue(MetricOf(Ranked[i]), MetricOf(Ranked[j])))
                  => KeyRank(Ranked[i]) < KeyRank(Ranked[j])
        /\ \A x \in RankableItems \ Range(Ranked) :
              \A i \in DOMAIN Ranked :
                  SameValue(MetricOf(x), MetricOf(Ranked[i]))
                      => KeyRank(Ranked[i]) < KeyRank(x)

DurationMetric == request.metric \in {"Total Duration", "Avg Duration"}

NoDurationAtAll ==
    \A i \in DOMAIN TopIntervals : TopIntervals[i].duration_hours = NA

PeriodLength(p, period) ==
    CASE period = "Day" -> Day(1)
      [] period = "Week" -> Day(7)
      [] period = "Month" -> IF p = Day(0) THEN Day(31) ELSE Day(28)
      [] period = "Year" -> Day(365)

\* p opens a calendar day, a Monday-to-Sunday week, a month or a year, day
\* 0 being Wednesday 1 January 2025.
OpensPeriod(p, period) ==
    /\ p % Day(1) = 0
    /\ CASE period = "Day" -> TRUE
         [] period = "Week" -> ((p \div Day(1)) + 2) % 7 = 0
         [] period = "Month" -> p \in {Day(0), Day(31)}
         [] period = "Year" -> p = Day(0)

InPeriod(t, p, period) == p <= t /\ t < p + PeriodLength(p, period)

IntervalsOf(item) ==
    {k \in DOMAIN TopIntervals : TopIntervals[k].item_name_with_num = item}

RECURSIVE SumCounts(_, _, _)
SumCounts(counts, index, item) ==
    IF index = <<>> THEN 0
    ELSE counts[<<Head(index), item>>] + SumCounts(counts, Tail(index), item)

\* C23: the count matrix has one column for each returned item and no
\* other, the columns being in descending order of the metric; its rows are
\* calendar periods in ascending order; the counts of a column sum to the
\* number of intervals of the item in the analysed set; and each cell is the
\* number of intervals of the item whose Start lies in the period, every
\* interval of a returned item lying in exactly one period of the matrix.
C23_PivotCountsEveryInterval ==
    Built("topn") =>
        LET pivot == result.pivot
        IN  /\ Len(pivot.columns) =
                   Least(request.top_n, Cardinality(RankableItems))
            /\ \A i, j \in DOMAIN pivot.columns :
                  i < j => /\ pivot.columns[i] # pivot.columns[j]
                           /\ ~ValueBelow(MetricOf(pivot.columns[i]),
                                          MetricOf(pivot.columns[j]))
            /\ DOMAIN pivot.counts =
                   Range(pivot.index) \X Range(pivot.columns)
            /\ \A i, j \in DOMAIN pivot.index :
                  i < j => pivot.index[i] < pivot.index[j]
            /\ \A i \in DOMAIN pivot.index :
                  OpensPeriod(pivot.index[i], request.period)
            /\ \A item \in Range(pivot.columns) :
                  /\ SumCounts(pivot.counts, pivot.index, item) =
                         Cardinality(IntervalsOf(item))
                  /\ \A p \in Range(pivot.index) :
                        pivot.counts[<<p, item>>] =
                            Cardinality({k \in IntervalsOf(item) :
                                InPeriod(TopIntervals[k].Start, p,
                                         request.period)})
                  /\ \A k \in IntervalsOf(item) :
                        Cardinality({p \in Range(pivot.index) :
                            InPeriod(TopIntervals[k].Start, p,
                                     request.period)}) = 1

\* C23 witness: a matrix of two periods and two columns in which one item
\* has intervals in both periods and the other has none in one of them.
C23_Witness ==
    /\ Built("topn")
    /\ Len(result.pivot.index) = 2
    /\ Len(result.pivot.columns) = 2
    /\ \E item \in Range(result.pivot.columns) :
          \A p \in Range(result.pivot.index) :
              result.pivot.counts[<<p, item>>] > 0
    /\ \E item \in Range(result.pivot.columns) :
          \E p \in Range(result.pivot.index) :
              result.pivot.counts[<<p, item>>] = 0

-----------------------------------------------------------------------------
(* Specification of one call of load_data with a date range *)

MaxQueryRows == 2

\* Instants of three days, the first and the last second of day 1 among
\* them.
QueryTimes ==
    {Day(0) + Hour(10), Day(1), Day(1) + Hour(10), Day(2) - Second(1),
     Day(2) + Hour(10)}

QueryRows ==
    {StoredRow(Camera1, a, NaT, "Cameras", "realtime", TARGET_SHEETS[1]) :
        a \in QueryTimes \cup {NaT}}
    \cup {StoredRow(Mic1, Day(1) + Hour(10), NaT, "Audio", "historical",
                    "historical_raw_data")}

QueryTables == SeqsUpTo(QueryRows, MaxQueryRows)

\* The dates are given as 'YYYY-MM-DD' texts or not at all.
QueryRequests ==
    {[mode |-> m, category |-> c, start_date |-> a, end_date |-> b] :
        m \in {"all", "realtime"}, c \in {None, "Cameras"},
        a \in {<<>>, DateText(0), DateText(1)},
        b \in {<<>>, DateText(1), DateText(2)}}

InitQuery ==
    /\ pc = "request"
    /\ store \in QueryTables
    /\ request \in QueryRequests
    /\ now = Day(3) + Hour(12)
    /\ result = <<>>
    /\ ret = "none"
    /\ hist_outcome = "ok" /\ hist_in = <<>>
    /\ rt_outcome = "ok" /\ rt_in = <<>>
    /\ df_historical = <<>> /\ df_realtime = <<>>
    /\ db_fail = "none"
    /\ InitIdleRecon
    /\ InitIdleLoad

\* One call of load_data(mode, category, start_date, end_date) of an
\* analysis strategy.
LoadData ==
    /\ pc = "request"
    /\ result' = load_data(store, request.mode, request.category,
                           request.start_date, request.end_date, now)
    /\ pc' = "load_data"
    /\ UNCHANGED AnalysisFrame

NextQuery == LoadData

SpecQuery == InitQuery /\ [][NextQuery]_vars

-----------------------------------------------------------------------------
(* Claims on the date range of an analysis *)

\* The row passes the filters of the request other than the date range.
SelectedBut(row) ==
    /\ request.category # None => row.Category = request.category
    /\ request.mode = "realtime" =>
          /\ row.source = "realtime"
          /\ row.sheet_source # "Inventory"

InAnalysedSet(row) ==
    \E j \in DOMAIN result :
        /\ result[j].Start = row.Start.secs
        /\ result[j].item_name_with_num = row.item_name_with_num
        /\ result[j].source = row.source

\* C24: after load_data with an end date D, every stored row that passes
\* the other filters and whose Start lies from 00:00:00 to 23:59:59 of D,
\* and not before the start date, is in the analysed set.
C24_EndDateInclusive ==
    (pc = "load_data" /\ request.end_date # <<>>) =>
        \A k \in DOMAIN store :
            LET row == store[k]
            IN  (/\ SelectedBut(row)
                 /\ row.Start # Null
                 /\ Day(request.end_date[1]) <= row.Start.secs
                 /\ row.Start.secs < Day(request.end_date[1] + 1)
                 /\ request.start_date # <<>> =>
                       Day(request.start_date[1]) <= row.Start.secs)
                    => InAnalysedSet(row)

-----------------------------------------------------------------------------
(* Further claims on _process_borrow_records *)

\* Twice the distance between a duration in hours and the exact span.
TwiceOff(r) ==
    LET exact == r.finished - r.Start
        whole == r.duration_hours * Hour(1)
    IN  IF whole >= exact THEN 2 * (whole - exact) ELSE 2 * (exact - whole)

\* C25: every interval returned has a duration exactly when it has an end,
\* and the duration is then a whole number of hours within half an hour of
\* the time from start to end.
C25_DurationNearestHour ==
    pc # "group" =>
        \A i \in DOMAIN records :
            LET r == records[i]
            IN  /\ r.duration_hours # NA <=> r.finished # NaT
                /\ r.finished # NaT =>
                      /\ r.duration_hours \in Nat
                      /\ TwiceOff(r) <= Hour(1)

\* C25 witness: closed intervals of 40 minutes and of exactly two hours and
\* a half have been returned, or one of these next to an interval without
\* end.
C25_Witness ==
    /\ pc = "done"
    /\ \E i \in DOMAIN records :
          /\ records[i].finished # NaT
          /\ records[i].finished - records[i].Start
                \in {Minute(40), Hour(2) + Minute(30)}
    /\ \E i \in DOMAIN records :
          \/ records[i].finished = NaT
          \/ /\ records[i].finished # NaT
             /\ records[i].finished - records[i].Start = Minute(30)

-----------------------------------------------------------------------------
(* Further claims on the timelines *)

\* The sum of the deltas of the first i rows of a timeline.
RunningSum(tl, i) ==
    Cardinality({k \in 1..i : tl[k].delta = 1})
    - Cardinality({k \in 1..i : tl[k].delta = -1})

\* Some interval ends at t and another one starts at t.
SharedBoundary(t) ==
    \E i, j \in DOMAIN Intervals :
        i # j /\ EndOf(Intervals[i]) = t /\ Intervals[j].Start = t

\* C26: in the continuous timeline no -1 row stands before a +1 row of the
\* same timestamp, no row at a timestamp at which one interval ends and
\* another starts reports status 0, and the sum of the deltas up to any row
\* is not negative.
C26_StartsBeforeEnds ==
    Built("single") =>
        LET tl == result.timeline
        IN  /\ \A i, j \in DOMAIN tl :
                  (i < j /\ tl[i].date = tl[j].date)
                      => ~(tl[i].delta = -1 /\ tl[j].delta = 1)
            /\ \A i \in DOMAIN tl :
                  /\ SharedBoundary(tl[i].date) => tl[i].status # 0
                  /\ RunningSum(tl, i) >= 0

-----------------------------------------------------------------------------
(* Claims on _process_borrow_records against the FIFO queue *)

DistinctTimestamps(g) ==
    \A i, j \in DOMAIN g :
        (i # j /\ g[i].Action \in {CheckOut, CheckIn}
               /\ g[j].Action \in {CheckOut, CheckIn})
            => g[i].Time # g[j].Time

\* C27: for a group whose events have pairwise distinct timestamps, the
\* intervals returned, closed and open, are exactly those the FIFO queue
\* gives over the events sorted by time.
C27_FifoOnDistinctTimes ==
    (pc # "group" /\ DistinctTimestamps(group)) =>
        BagOfSeq(Spans(records)) = BagOfSeq(FifoIntervals(group))

\* C27 witness: four events of distinct timestamps handed in out of order,
\* a check-in before the first check-out among them, have given a closed
\* and an open interval.
C27_Witness ==
    /\ pc = "done"
    /\ DistinctTimestamps(group)
    /\ Len(group) = 4
    /\ group # valid_actions
    /\ valid_actions[1].Action = CheckIn
    /\ \E i, j \in DOMAIN records :
          records[i].finished # NaT /\ records[j].finished = NaT

\* Number of rows of the group that are check-ins at instant t.
CheckInsAt(g, t) ==
    Cardinality({i \in DOMAIN g : g[i].Action = CheckIn /\ g[i].Time = t})

\* C28: the intervals returned for a group are as many as its check-out
\* rows, one per check-out, and the closed intervals that end at an instant
\* are not more than the check-in rows of that instant.
C28_OneIntervalPerCheckOut ==
    pc # "group" =>
        /\ Len(records) = CountOf(group, IsCheckOut)
        /\ BagOfSeq([i \in DOMAIN records |-> records[i].Start])
              = BagOfSeq([i \in DOMAIN SelectSeq(group, IsCheckOut) |->
                             SelectSeq(group, IsCheckOut)[i].Time])
        /\ \A i \in DOMAIN records :
              records[i].finished # NaT =>
                  Cardinality({j \in DOMAIN records :
                                  records[j].finished = records[i].finished})
                      <= CheckInsAt(group, records[i].finished)

\* C28 witness: two check-outs and one later check-in have given a closed
\* and an open interval.
C28_Witness ==
    /\ pc = "done"
    /\ CountOf(group, IsCheckOut) = 2
    /\ \E t \in ReconTimes :
          /\ CheckInsAt(group, t) = 1
          /\ \A i \in DOMAIN group : group[i].Time <= t
          /\ \E i \in DOMAIN records : records[i].finished = t
          /\ \E i \in DOMAIN records : records[i].finished = NaT

-----------------------------------------------------------------------------
(* Claims on the last row of the timelines *)

LastStatus == result.timeline[Len(result.timeline)].status

\* C29: for an item with intervals, the last row of the continuous
\* timeline has status 0 and the last day of the daily timeline has status
\* 0, intervals without end included.
C29_TimelinesEndAvailable ==
    /\ Built("single") => LastStatus = 0
    /\ Built("duration") => LastStatus = 0

-----------------------------------------------------------------------------
(* Claims on a run of update_realtime_data *)

\* C30: a run of update_realtime_data that returns False leaves the table
\* as it was before the run, the rows of every source included.
C30_FalseLeavesStore ==
    [][(pc' = "update_realtime_data" /\ ret' = "False") => store' = store]_vars

====
